---- MODULE Spec2Model ----
(***************************************************************************)
(* 1Pwned: streaming check of 1Password Login items against the            *)
(* HaveIBeenPwned range API.                                               *)
(*                                                                         *)
(*   hashed_password.py   HashedPassword                                   *)
(*   hibp_checker.py      hash_password, find_suffix_in_response,          *)
(*                        fetch_hibp_suffixes, check_pwned_hash            *)
(*   op_client.py         stream_login_items (the generator main consumes) *)
(*   check_op_passwords.py  main, print_compromised                        *)
(*                                                                         *)
(* Text is a sequence of one-character strings; a password is a sequence   *)
(* of Unicode code points (so that its UTF-8 encoding is computed).        *)
(* 32-bit words of SHA-1 are pairs <<hi, lo>> of 16-bit halves.            *)
(***************************************************************************)
EXTENDS Integers, Sequences, FiniteSets, TLC

(***************************************************************************)
(* Bounds of the model.                                                    *)
(***************************************************************************)
MaxSecretLen == 2
MaxBodyLen == 6
MaxVault == 3

(***************************************************************************)
(* State.                                                                  *)
(*                                                                         *)
(* check_op_passwords.main and the generator op_client.stream_login_items: *)
(*   pc             where main is: "start" (before the generator's first   *)
(*                  step), "pull" (the for statement asks for the next     *)
(*                  item), "hash", "query", "emit", "sleep" (lines 62, 63,  *)
(*                  66, 79), "final" (line 91), "done" (main has returned  *)
(*                  or called sys.exit)                                    *)
(*   vault          what `op` holds: the Login summaries in listing order  *)
(*   pos            the generator's position in the listing                *)
(*   item           the vault position of the candidate being processed    *)
(*   hashed_pass, count, checked_count, pwned_count   main's locals        *)
(*   stdout         the [PWNED] lines print_compromised has written        *)
(*   log            the records logged, by kind                            *)
(*   exit_code      the process's exit status, -1 while it runs            *)
(*   reported_tally the counts of the "Check complete" record, <<>> if none*)
(* History of the run (read by the properties only):                       *)
(*   outcomes[k]    how the k-th pulled candidate ended                    *)
(*   lookups[k]     what check_pwned_hash gave for the k-th candidate      *)
(*   trace          the pulls, queries, classifications and pauses so far  *)
(*   ending         how the run came to its end, "running" before        *)
(* A single lookup, run side by side for two secrets against one reply:    *)
(*   lk_pc, lk_secret, lk_hashed, lk_reply, lk_result                      *)
(* A single call of find_suffix_in_response:                               *)
(*   ps_pc, ps_text, ps_target, ps_result                                  *)
(***************************************************************************)
VARIABLES pc, vault, pos, item, hashed_pass, count, checked_count, pwned_count,
          stdout, log, exit_code, reported_tally, outcomes, lookups, trace, ending,
          lk_pc, lk_secret, lk_hashed, lk_reply, lk_result,
          ps_pc, ps_text, ps_target, ps_result

mainVars == <<pc, vault, pos, item, hashed_pass, count, checked_count, pwned_count,
              stdout, log, exit_code, reported_tally, outcomes, lookups, trace, ending>>
lookupVars == <<lk_pc, lk_secret, lk_hashed, lk_reply, lk_result>>
parseVars == <<ps_pc, ps_text, ps_target, ps_result>>
vars == <<mainVars, lookupVars, parseVars>>


(***************************************************************************)
(* hashlib.sha1 (FIPS 180-4) over bytes, as used by hash_password.         *)
(***************************************************************************)
W16 == 65536

Half == 0..65535
Word == Half \X Half

\* Definitions over words are functions: TLC then evaluates each argument once.
AndNib[a \in 0..15, b \in 0..15] ==
    ((a % 2) * (b % 2)) + (2 * (((a \div 2) % 2) * ((b \div 2) % 2)))
    + (4 * (((a \div 4) % 2) * ((b \div 4) % 2))) + (8 * ((a \div 8) * (b \div 8)))

And16[x \in Half, y \in Half] ==
    AndNib[x % 16, y % 16] + (16 * AndNib[(x \div 16) % 16, (y \div 16) % 16])
    + (256 * AndNib[(x \div 256) % 16, (y \div 256) % 16])
    + (4096 * AndNib[x \div 4096, y \div 4096])

Or16[x \in Half, y \in Half] == (x + y) - And16[x, y]
Xor16[x \in Half, y \in Half] == (x + y) - (2 * And16[x, y])
Not16[x \in Half] == (W16 - 1) - x

WAnd[a \in Word, b \in Word] == <<And16[a[1], b[1]], And16[a[2], b[2]]>>
WOr[a \in Word, b \in Word] == <<Or16[a[1], b[1]], Or16[a[2], b[2]]>>
WXor[a \in Word, b \in Word] == <<Xor16[a[1], b[1]], Xor16[a[2], b[2]]>>
WNot[a \in Word] == <<Not16[a[1]], Not16[a[2]]>>

\* Addition modulo 2^32.
WAdd[a \in Word, b \in Word] ==
    <<(a[1] + b[1] + ((a[2] + b[2]) \div W16)) % W16, (a[2] + b[2]) % W16>>

\* Left rotation of a 32-bit word by n, 0 < n < 32.
WRotl[a \in Word, n \in 1..31] ==
    IF n = 16 THEN <<a[2], a[1]>>
    ELSE LET hi == IF n < 16 THEN a[1] ELSE a[2]
             lo == IF n < 16 THEN a[2] ELSE a[1]
             k == IF n < 16 THEN n ELSE n - 16
         IN <<((hi * (2^k)) % W16) + (lo \div (2^(16 - k))),
              ((lo * (2^k)) % W16) + (hi \div (2^(16 - k)))>>

\* The padded message: bytes, 0x80, zeros up to 56 mod 64, the bit length on 8 bytes
\* (the length fits 16 bits for every message of the model).
ShaPad(bytes) ==
    LET n == Len(bytes)
        k == (55 - n) % 64
    IN bytes \o <<128>> \o [i \in 1..(k + 6) |-> 0]
             \o <<(n * 8) \div 256, (n * 8) % 256>>

\* The 16 big-endian words of the block that starts at byte b + 1.
BlockWords(m, b) ==
    [t \in 1..16 |-> <<(m[b + (4 * t) - 3] * 256) + m[b + (4 * t) - 2],
                       (m[b + (4 * t) - 1] * 256) + m[b + (4 * t)]>>]

\* The message schedule extended from t - 1 words to 80 words.
Schedule[w \in Seq(Word), t \in Nat] ==
    IF t > 80 THEN w
    ELSE Schedule[Append(w, WRotl[WXor[WXor[w[t - 3], w[t - 8]],
                                       WXor[w[t - 14], w[t - 16]]], 1]), t + 1]

ShaF[t \in Nat, b \in Word, c \in Word, d \in Word] ==
    IF t <= 20 THEN WOr[WAnd[b, c], WAnd[WNot[b], d]]
    ELSE IF t <= 40 THEN WXor[WXor[b, c], d]
    ELSE IF t <= 60 THEN WOr[WOr[WAnd[b, c], WAnd[b, d]], WAnd[c, d]]
    ELSE WXor[WXor[b, c], d]

ShaK[t \in Nat] ==
    IF t <= 20 THEN <<23170, 31129>>
    ELSE IF t <= 40 THEN <<28377, 60321>>
    ELSE IF t <= 60 THEN <<36635, 48348>>
    ELSE <<51810, 49622>>

\* Rounds t..80 over the working variables s = <<a, b, c, d, e>>.
Rounds[w \in Seq(Word), s \in Seq(Word), t \in Nat] ==
    IF t > 80 THEN s
    ELSE Rounds[w,
                <<WAdd[WAdd[WAdd[WAdd[WRotl[s[1], 5], ShaF[t, s[2], s[3], s[4]]],
                                 s[5]], ShaK[t]], w[t]],
                  s[1], WRotl[s[2], 30], s[3], s[4]>>,
                t + 1]

\* The intermediate hash value after one block: h + the working variables s.
ShaAdd[h \in Seq(Word), s \in Seq(Word)] ==
    <<WAdd[h[1], s[1]], WAdd[h[2], s[2]], WAdd[h[3], s[3]],
      WAdd[h[4], s[4]], WAdd[h[5], s[5]]>>

ShaBlocks[m \in Seq(0..255), b \in Nat, h \in Seq(Word)] ==
    IF b >= Len(m) THEN h
    ELSE ShaBlocks[m, b + 64,
                   ShaAdd[h, Rounds[Schedule[BlockWords(m, b), 17], h, 1]]]

ShaInit ==
    <<<<26437, 8961>>, <<61389, 43913>>, <<39098, 56574>>,
      <<4146, 21622>>, <<50130, 57840>>>>

\* hashlib.sha1(bytes): the five state words.
Sha1(bytes) == ShaBlocks[ShaPad(bytes), 0, ShaInit]

HexLower == <<"0", "1", "2", "3", "4", "5", "6", "7", "8", "9",
              "a", "b", "c", "d", "e", "f">>

Hex16(x) ==
    <<HexLower[((x \div 4096) % 16) + 1], HexLower[((x \div 256) % 16) + 1],
      HexLower[((x \div 16) % 16) + 1], HexLower[(x % 16) + 1]>>

\* .hexdigest(): 40 lowercase hexadecimal characters.
HexDigest(h) ==
    Hex16(h[1][1]) \o Hex16(h[1][2]) \o Hex16(h[2][1]) \o Hex16(h[2][2]) \o
    Hex16(h[3][1]) \o Hex16(h[3][2]) \o Hex16(h[4][1]) \o Hex16(h[4][2]) \o
    Hex16(h[5][1]) \o Hex16(h[5][2])

\* str.upper() on the characters a digest or a response line can hold.
UpperChar(c) ==
    CASE c = "a" -> "A" [] c = "b" -> "B" [] c = "c" -> "C"
      [] c = "d" -> "D" [] c = "e" -> "E" [] c = "f" -> "F"
      [] OTHER -> c

Upper(s) == [i \in 1..Len(s) |-> UpperChar(s[i])]

(***************************************************************************)
(* str.encode("utf-8"), strict: a lone surrogate raises UnicodeEncodeError.*)
(***************************************************************************)
IsSurrogate(cp) == cp >= 55296 /\ cp <= 57343

Utf8Char(cp) ==
    IF cp < 128 THEN <<cp>>
    ELSE IF cp < 2048 THEN <<192 + (cp \div 64), 128 + (cp % 64)>>
    ELSE IF cp < 65536
         THEN <<224 + (cp \div 4096), 128 + ((cp \div 64) % 64), 128 + (cp % 64)>>
    ELSE <<240 + (cp \div 262144), 128 + ((cp \div 4096) % 64),
           128 + ((cp \div 64) % 64), 128 + (cp % 64)>>

Utf8[s \in Seq(Nat)] == IF s = <<>> THEN <<>> ELSE Utf8Char(Head(s)) \o Utf8[Tail(s)]

Encodable(s) == \A i \in 1..Len(s) : ~IsSurrogate(s[i])

(***************************************************************************)
(* hashed_password.py and hibp_checker.hash_password.                      *)
(***************************************************************************)
\* Code points of the model's passwords: 'p', '7', 'x', 'o', U+00E9 (two bytes
\* in UTF-8) and U+D800 (a lone surrogate, as json.loads yields for "\ud800").
SecretChars == {112, 55, 120, 111, 233, 55296}

Secrets == UNION {[1..len -> SecretChars] : len \in 1..MaxSecretLen}

\* hashlib.sha1(data).hexdigest()
Sha1Hex(data) == HexDigest(Sha1(data))

\* Sha1Hex over the UTF-8 bytes of the model's passwords, tabulated as
\* <<password, digest>> rows.
DigestTable ==
    {<<secret, Sha1Hex(Utf8[secret])>> : secret \in {sec \in Secrets : Encodable(sec)}}

PasswordDigest(password) ==
    IF \E row \in DigestTable : row[1] = password
    THEN (CHOOSE row \in DigestTable : row[1] = password)[2]
    ELSE Sha1Hex(Utf8[password])

\* HashedPassword.__init__
HashedPassword(prefix, suffix) == [prefix |-> prefix, suffix |-> suffix]

\* HashedPassword.get_full_hash
get_full_hash(hp) == hp.prefix \o hp.suffix

\* hash_password without .upper(): the digest as hexdigest() gives it.
hash_password_lowercase(password) ==
    IF ~Encodable(password)
    THEN [raised |-> "UnicodeEncodeError", value |-> HashedPassword(<<>>, <<>>)]
    ELSE [raised |-> "none",
          value |-> HashedPassword(SubSeq(PasswordDigest(password), 1, 5),
                                   SubSeq(PasswordDigest(password), 6, 40))]

\* h = hashlib.sha1(password.encode("utf-8")).hexdigest().upper()
\* prefix, suffix = h[:5], h[5:]
hash_password(password) ==
    IF ~Encodable(password)
    THEN [raised |-> "UnicodeEncodeError", value |-> HashedPassword(<<>>, <<>>)]
    ELSE [raised |-> "none",
          value |-> HashedPassword(SubSeq(Upper(PasswordDigest(password)), 1, 5),
                                   SubSeq(Upper(PasswordDigest(password)), 6, 40))]

(***************************************************************************)
(* hibp_checker.find_suffix_in_response.                                   *)
(***************************************************************************)
Text == Seq(STRING)

\* str.splitlines() over "\n", "\r" and "\r\n" (the line breaks of the model's
\* alphabet): lines collected so far, cur the line being read from at.
SplitLinesFrom[txt \in Text, at \in Nat, cur \in Text, lines \in Seq(Text)] ==
    IF at > Len(txt) THEN (IF cur = <<>> THEN lines ELSE Append(lines, cur))
    ELSE IF txt[at] = "\n" THEN SplitLinesFrom[txt, at + 1, <<>>, Append(lines, cur)]
    ELSE IF txt[at] = "\r"
         THEN SplitLinesFrom[txt,
                             IF at < Len(txt) /\ txt[at + 1] = "\n" THEN at + 2 ELSE at + 1,
                             <<>>, Append(lines, cur)]
    ELSE SplitLinesFrom[txt, at + 1, Append(cur, txt[at]), lines]

SplitLines(txt) == SplitLinesFrom[txt, 1, <<>>, <<>>]

\* line.split(":"): the parts between the separators, the last one included.
SplitColonFrom[txt \in Text, at \in Nat, cur \in Text, parts \in Seq(Text)] ==
    IF at > Len(txt) THEN Append(parts, cur)
    ELSE IF txt[at] = ":" THEN SplitColonFrom[txt, at + 1, <<>>, Append(parts, cur)]
    ELSE SplitColonFrom[txt, at + 1, Append(cur, txt[at]), parts]

SplitColon(txt) == SplitColonFrom[txt, 1, <<>>, <<>>]

Digits == <<"0", "1", "2", "3", "4", "5", "6", "7", "8", "9">>

IsDigit(ch) == \E d \in 1..10 : Digits[d] = ch

DigitValue(ch) == (CHOOSE d \in 1..10 : Digits[d] = ch) - 1

\* int(count_str) over the model's alphabet (no sign, blank or underscore):
\* a non-empty string of decimal digits, anything else raises ValueError.
IntParses(txt) == txt # <<>> /\ \A k \in 1..Len(txt) : IsDigit(txt[k])

IntValueFrom[txt \in Text, at \in Nat, acc \in Nat] ==
    IF at > Len(txt) THEN acc
    ELSE IntValueFrom[txt, at + 1, (10 * acc) + DigitValue(txt[at])]

IntValue(txt) == IntValueFrom[txt, 1, 0]

\* The body of the try for one line:
\*     suffix, count_str = line.split(":")
\*     if suffix == suffix_to_find: return int(count_str)
TryLine(line, suffix_to_find) ==
    IF Len(SplitColon(line)) # 2 THEN [kind |-> "ValueError", value |-> 0]
    ELSE IF SplitColon(line)[1] # suffix_to_find THEN [kind |-> "next", value |-> 0]
    ELSE IF ~IntParses(SplitColon(line)[2]) THEN [kind |-> "ValueError", value |-> 0]
    ELSE [kind |-> "return", value |-> IntValue(SplitColon(line)[2])]

\* The loop without its except clause: a ValueError leaves the function.
OnLine_uncaught(tried) == tried

\* except ValueError: pass
OnLine(tried) ==
    IF tried.kind = "ValueError" THEN [kind |-> "next", value |-> 0] ELSE tried

\* for line in response_text.splitlines(): ...; return 0
FindFrom[lines \in Seq(Text), at \in Nat, suffix_to_find \in Text] ==
    IF at > Len(lines) THEN [raised |-> "none", value |-> 0]
    ELSE IF OnLine(TryLine(lines[at], suffix_to_find)).kind = "return"
         THEN [raised |-> "none", value |-> TryLine(lines[at], suffix_to_find).value]
    ELSE IF OnLine(TryLine(lines[at], suffix_to_find)).kind = "next"
         THEN FindFrom[lines, at + 1, suffix_to_find]
    ELSE [raised |-> OnLine(TryLine(lines[at], suffix_to_find)).kind, value |-> 0]

find_suffix_in_response(response_text, suffix_to_find) ==
    FindFrom[SplitLines(response_text), 1, suffix_to_find]

(***************************************************************************)
(* hibp_checker.fetch_hibp_suffixes and check_pwned_hash.                  *)
(***************************************************************************)
HIBP_RANGE_URL ==
    <<"h", "t", "t", "p", "s", ":", "/", "/", "a", "p", "i", ".", "p", "w", "n", "e",
      "d", "p", "a", "s", "s", "w", "o", "r", "d", "s", ".", "c", "o", "m", "/", "r",
      "a", "n", "g", "e", "/", "{", "}">>

USER_AGENT == "1Password-Pwned-Check/1.0"

TIMEOUT == 15

\* template.format(arg) for a template with one "{}" field.
Format(template, arg) ==
    LET open == CHOOSE k \in 1..(Len(template) - 1) :
                    template[k] = "{" /\ template[k + 1] = "}"
    IN SubSeq(template, 1, open - 1) \o arg \o SubSeq(template, open + 2, Len(template))

\* The request requests.get(url, headers=headers, timeout=TIMEOUT) sends.
RequestFor(prefix) ==
    [url |-> Format(HIBP_RANGE_URL, prefix),
     headers |-> [name \in {"User-Agent"} |-> USER_AGENT],
     timeout |-> TIMEOUT]

\* What requests.get can do: raise a RequestException (timeout, connection
\* refused, DNS failure) or return a response with a status code and a text.
TransportFailure == [kind |-> "RequestException", status_code |-> 0, text |-> <<>>]
Response(status_code, text) ==
    [kind |-> "response", status_code |-> status_code, text |-> text]

\* Response.raise_for_status(): HTTPError (a RequestException) for 4xx and 5xx.
RaisesForStatus(status_code) == status_code >= 400 /\ status_code < 600

fetch_hibp_suffixes(prefix, reply) ==
    IF reply.kind = "RequestException"
    THEN [raised |-> "HIBPError", text |-> <<>>, request |-> RequestFor(prefix)]
    ELSE IF reply.status_code = 429
    THEN [raised |-> "HIBPRateLimitError", text |-> <<>>, request |-> RequestFor(prefix)]
    ELSE IF RaisesForStatus(reply.status_code)
    THEN [raised |-> "HIBPError", text |-> <<>>, request |-> RequestFor(prefix)]
    ELSE [raised |-> "none", text |-> reply.text, request |-> RequestFor(prefix)]

\* check_pwned_hash querying with the whole digest instead of its prefix.
check_pwned_hash_full(hashed, reply) ==
    IF fetch_hibp_suffixes(get_full_hash(hashed), reply).raised # "none"
    THEN [raised |-> fetch_hibp_suffixes(get_full_hash(hashed), reply).raised, value |-> 0,
          request |-> fetch_hibp_suffixes(get_full_hash(hashed), reply).request]
    ELSE find_suffix_in_response(fetch_hibp_suffixes(get_full_hash(hashed), reply).text,
                                 hashed.suffix)
            @@ [request |-> fetch_hibp_suffixes(get_full_hash(hashed), reply).request]

\* prefix_suffixes = fetch_hibp_suffixes(hashed.prefix)
\* return find_suffix_in_response(prefix_suffixes, hashed.suffix)
check_pwned_hash(hashed, reply) ==
    IF fetch_hibp_suffixes(hashed.prefix, reply).raised # "none"
    THEN [raised |-> fetch_hibp_suffixes(hashed.prefix, reply).raised, value |-> 0,
          request |-> fetch_hibp_suffixes(hashed.prefix, reply).request]
    ELSE find_suffix_in_response(fetch_hibp_suffixes(hashed.prefix, reply).text,
                                 hashed.suffix)
            @@ [request |-> fetch_hibp_suffixes(hashed.prefix, reply).request]

NoHash == HashedPassword(<<>>, <<>>)
NoLookup == [raised |-> "not called", value |-> 0]

MainIdle ==
    /\ pc = "idle" /\ vault = <<>> /\ pos = 0 /\ item = 0 /\ hashed_pass = NoHash
    /\ count = 0 /\ checked_count = 0 /\ pwned_count = 0 /\ stdout = <<>>
    /\ log = <<>> /\ exit_code = -1 /\ reported_tally = <<>> /\ outcomes = <<>>
    /\ lookups = <<>> /\ trace = <<>> /\ ending = "running"

LookupIdle ==
    /\ lk_pc = "idle" /\ lk_secret = <<>> /\ lk_hashed = <<>>
    /\ lk_reply = TransportFailure /\ lk_result = <<>>

ParseIdle ==
    /\ ps_pc = "idle" /\ ps_text = <<>> /\ ps_target = <<>>
    /\ ps_result = [raised |-> "not called", value |-> 0]

(***************************************************************************)
(* The remote authority and the vault of the model.                        *)
(***************************************************************************)
\* Status codes a reply can carry: success, two non-200 codes that are no
\* error to raise_for_status, rate limiting, a client and a server error.
Statuses == {200, 204, 304, 404, 429, 500}

CRLF == <<"\r", "\n">>

\* Bodies for a query about the fingerprint hashed: empty, the suffix listed
\* with count 5, and a malformed line followed by the suffix with count 3.
BodiesFor(hashed) ==
    {<<>>,
     hashed.suffix \o <<":", "5">> \o CRLF,
     <<"N", "o", "C", "o", "l", "o", "n">> \o CRLF \o hashed.suffix \o <<":", "3">>}

LookupReplies(hashed) ==
    {TransportFailure}
        \cup {Response(st, <<>>) : st \in Statuses \ {200}}
        \cup {Response(200, body) : body \in BodiesFor(hashed)}

\* A listed summary either yields a LoginItem with a password, or is skipped
\* by the generator (no id, `op item get` failed, bad JSON, no password).
MainPasswords == {<<112, 55>>, <<55296>>}

VaultEntries ==
    {[kind |-> "login", password |-> pw] : pw \in MainPasswords}
        \cup {[kind |-> "skipped", password |-> <<>>]}

Vaults == UNION {[1..len -> VaultEntries] : len \in 0..MaxVault}

(***************************************************************************)
(* check_op_passwords.main over op_client.stream_login_items.              *)
(***************************************************************************)
\* The except clauses with a rate-limit failure skipped like a generic one.
ExceptClause_no_break(raised) ==
    IF raised = "HIBPRateLimitError" THEN [logged |-> "rate_limited", goto |-> "sleep"]
    ELSE IF raised = "HIBPError" THEN [logged |-> "hibp_failed", goto |-> "sleep"]
    ELSE [logged |-> "unexpected", goto |-> "sleep"]

\* The except clauses with a generic failure ending the loop.
ExceptClause_generic_breaks(raised) ==
    IF raised = "HIBPRateLimitError" THEN [logged |-> "rate_limited", goto |-> "final"]
    ELSE IF raised = "HIBPError" THEN [logged |-> "hibp_failed", goto |-> "final"]
    ELSE [logged |-> "unexpected", goto |-> "sleep"]

\* The except clauses without the HIBPRateLimitError clause: the failure, an
\* HIBPError, is logged by the HIBPError clause, and the loop still ends.
ExceptClause_one_message(raised) ==
    IF raised = "HIBPRateLimitError" THEN [logged |-> "hibp_failed", goto |-> "final"]
    ELSE IF raised = "HIBPError" THEN [logged |-> "hibp_failed", goto |-> "sleep"]
    ELSE [logged |-> "unexpected", goto |-> "sleep"]

\* The except clauses with a generic failure going on (`continue`) past the
\* pause.
ExceptClause_continue(raised) ==
    IF raised = "HIBPRateLimitError" THEN [logged |-> "rate_limited", goto |-> "final"]
    ELSE IF raised = "HIBPError" THEN [logged |-> "hibp_failed", goto |-> "pull"]
    ELSE [logged |-> "unexpected", goto |-> "sleep"]

\* The except clauses of the loop body (lines 69-76), first match first:
\* the record logged and where main goes on.
ExceptClause(raised) ==
    IF raised = "HIBPRateLimitError" THEN [logged |-> "rate_limited", goto |-> "final"]
    ELSE IF raised = "HIBPError" THEN [logged |-> "hibp_failed", goto |-> "sleep"]
    ELSE [logged |-> "unexpected", goto |-> "sleep"]

\* The k-th candidate ends as `how`.
Classified(how) ==
    /\ outcomes' = [outcomes EXCEPT ![checked_count] = how]
    /\ trace' = Append(trace, "classified")

Caught(raised) ==
    /\ log' = Append(log, ExceptClause(raised).logged)
    /\ pc' = ExceptClause(raised).goto
    /\ Classified(raised)

\* The generator's first step: `op item list` and json.loads of its output.
ListItems ==
    /\ pc = "start"
    /\ \/ /\ vault = <<>>
          /\ pc' = "final"
          /\ UNCHANGED <<pos, log, exit_code, ending>>
       \/ /\ vault # <<>>
          /\ pc' = "pull"
          /\ pos' = 1
          /\ UNCHANGED <<log, exit_code, ending>>
       \/ /\ log' = Append(log, "critical_op")
          /\ exit_code' = 2
          /\ pc' = "done"
          /\ ending' = "enumeration failed"
          /\ UNCHANGED pos
       \/ /\ log' = Append(log, "critical_json")
          /\ exit_code' = 3
          /\ pc' = "done"
          /\ ending' = "enumeration failed"
          /\ UNCHANGED pos
    /\ UNCHANGED <<vault, item, hashed_pass, count, checked_count, pwned_count,
                   stdout, reported_tally, outcomes, lookups, trace>>
    /\ UNCHANGED <<lookupVars, parseVars>>

\* One iteration of the generator's loop over the summaries, and on a yield
\* the for statement's `checked_count += 1`.
NextSummary ==
    /\ pc = "pull"
    /\ \/ /\ pos > Len(vault)
          /\ pc' = "final"
          /\ UNCHANGED <<pos, item, checked_count, outcomes, lookups, trace>>
       \/ /\ pos <= Len(vault)
          /\ vault[pos].kind = "skipped"
          /\ pos' = pos + 1
          /\ UNCHANGED <<pc, item, checked_count, outcomes, lookups, trace>>
       \/ /\ pos <= Len(vault)
          /\ vault[pos].kind = "login"
          /\ item' = pos
          /\ pos' = pos + 1
          /\ checked_count' = checked_count + 1
          /\ outcomes' = Append(outcomes, "pending")
          /\ lookups' = Append(lookups, NoLookup)
          /\ trace' = Append(trace, "pull")
          /\ pc' = "hash"
    /\ UNCHANGED <<vault, hashed_pass, count, pwned_count, stdout, log, exit_code,
                   reported_tally>>
    /\ UNCHANGED <<ending, lookupVars, parseVars>>

\* hashed_pass = hash_password(item.password)
HashPassword ==
    /\ pc = "hash"
    /\ \E got \in {hash_password(vault[item].password)} :
          \/ /\ got.raised = "none"
             /\ hashed_pass' = got.value
             /\ pc' = "query"
             /\ UNCHANGED <<log, outcomes, trace>>
          \/ /\ got.raised # "none"
             /\ Caught(got.raised)
             /\ UNCHANGED hashed_pass
    /\ UNCHANGED <<vault, pos, item, count, checked_count, pwned_count, stdout,
                   exit_code, reported_tally, lookups>>
    /\ UNCHANGED <<ending, lookupVars, parseVars>>

\* count = check_pwned_hash(hashed_pass), and `if count > 0`.
CheckPwned ==
    /\ pc = "query"
    /\ \E reply \in LookupReplies(hashed_pass) :
       \E got \in {check_pwned_hash(hashed_pass, reply)} :
          /\ lookups' = [lookups EXCEPT ![checked_count] =
                            [raised |-> got.raised, value |-> got.value]]
          /\ \/ /\ got.raised = "none"
                /\ got.value > 0
                /\ count' = got.value
                /\ pc' = "emit"
                /\ trace' = Append(trace, "query")
                /\ UNCHANGED <<log, outcomes>>
             \/ /\ got.raised = "none"
                /\ got.value <= 0
                /\ count' = got.value
                /\ pc' = "sleep"
                /\ trace' = Append(trace, "query") \o <<"classified">>
                /\ outcomes' = [outcomes EXCEPT ![checked_count] = "clean"]
                /\ UNCHANGED log
             \/ /\ got.raised # "none"
                /\ log' = Append(log, ExceptClause(got.raised).logged)
                /\ pc' = ExceptClause(got.raised).goto
                /\ trace' = Append(trace, "query") \o <<"classified">>
                /\ outcomes' = [outcomes EXCEPT ![checked_count] = got.raised]
                /\ UNCHANGED count
    /\ UNCHANGED <<vault, pos, item, hashed_pass, checked_count, pwned_count, stdout,
                   exit_code, reported_tally>>
    /\ UNCHANGED <<ending, lookupVars, parseVars>>

\* print_compromised(item, count) and `pwned_count += 1`. Writing to stdout or
\* stderr can fail (a closed pipe, a title the stream cannot encode): the
\* exception leaves no line written.
PrintCompromised ==
    /\ pc = "emit"
    /\ \/ /\ stdout' = Append(stdout, [id |-> item, count |-> count])
          /\ pwned_count' = pwned_count + 1
          /\ pc' = "sleep"
          /\ Classified("finding")
          /\ UNCHANGED log
       \/ /\ Caught("OSError")
          /\ UNCHANGED <<stdout, pwned_count>>
    /\ UNCHANGED <<vault, pos, item, hashed_pass, count, checked_count, exit_code,
                   reported_tally, lookups>>
    /\ UNCHANGED <<ending, lookupVars, parseVars>>

\* time.sleep(SLEEP_BETWEEN)
Sleep ==
    /\ pc = "sleep"
    /\ pc' = "pull"
    /\ trace' = Append(trace, "pause")
    /\ UNCHANGED <<vault, pos, item, hashed_pass, count, checked_count, pwned_count,
                   stdout, log, exit_code, reported_tally, outcomes, lookups>>
    /\ UNCHANGED <<ending, lookupVars, parseVars>>

\* logger.info("Check complete. Checked ... items. Found ..."), and main returns.
Final ==
    /\ pc = "final"
    /\ log' = Append(log, "complete")
    /\ reported_tally' = <<checked_count, pwned_count>>
    /\ exit_code' = 0
    /\ pc' = "done"
    /\ ending' = "returned"
    /\ UNCHANGED <<vault, pos, item, hashed_pass, count, checked_count, pwned_count,
                   stdout, outcomes, lookups, trace>>
    /\ UNCHANGED <<lookupVars, parseVars>>

\* KeyboardInterrupt raised anywhere inside the outer try (lines 58-79), in
\* the generator included: it is no Exception, so neither the loop's except
\* clauses nor fetch_hibp_suffixes catch it, and line 84 does.
Cancel ==
    /\ pc \in {"start", "pull", "hash", "query", "emit", "sleep"}
    /\ log' = Append(log, "cancelled")
    /\ exit_code' = 1
    /\ pc' = "done"
    /\ ending' = "cancelled"
    /\ UNCHANGED <<vault, pos, item, hashed_pass, count, checked_count, pwned_count,
                   stdout, reported_tally, outcomes, lookups, trace>>
    /\ UNCHANGED <<lookupVars, parseVars>>

Init ==
    /\ pc = "start" /\ vault \in Vaults /\ pos = 0 /\ item = 0 /\ hashed_pass = NoHash
    /\ count = 0 /\ checked_count = 0 /\ pwned_count = 0 /\ stdout = <<>>
    /\ log = <<>> /\ exit_code = -1 /\ reported_tally = <<>> /\ outcomes = <<>>
    /\ lookups = <<>> /\ trace = <<>> /\ ending = "running"
    /\ LookupIdle /\ ParseIdle

Next ==
    \/ ListItems
    \/ NextSummary
    \/ HashPassword
    \/ CheckPwned
    \/ PrintCompromised
    \/ Sleep
    \/ Final
    \/ Cancel

Spec == Init /\ [][Next]_vars

(***************************************************************************)
(* One lookup: hash_password, then check_pwned_hash, for two secrets       *)
(* against the same reply of the remote authority.                         *)
(***************************************************************************)
\* The lookup of one secret after hashing: the result of check_pwned_hash, or
\* the failure of hash_password and nothing sent.
LookupOf(hashed, reply) ==
    IF hashed.raised # "none"
    THEN [raised |-> hashed.raised, value |-> 0, sent |-> <<>>]
    ELSE LET got == check_pwned_hash(hashed.value, reply)
         IN  [raised |-> got.raised, value |-> got.value, sent |-> <<got.request>>]

LookupHash ==
    /\ lk_pc = "hash"
    /\ lk_hashed' = <<hash_password(lk_secret[1]), hash_password(lk_secret[2])>>
    /\ lk_pc' = "check"
    /\ UNCHANGED <<lk_secret, lk_reply, lk_result>>
    /\ UNCHANGED <<mainVars, parseVars>>

LookupCheck ==
    /\ lk_pc = "check"
    /\ \E reply \in LookupReplies(lk_hashed[1].value) :
          /\ lk_reply' = reply
          /\ lk_result' = <<LookupOf(lk_hashed[1], reply), LookupOf(lk_hashed[2], reply)>>
    /\ lk_pc' = "done"
    /\ UNCHANGED <<lk_secret, lk_hashed>>
    /\ UNCHANGED <<mainVars, parseVars>>

\* The secrets a lookup is compared with: "p7" and "xo", whose fingerprints
\* share the prefix E88B9, and a non-ASCII one.
LookupRivals == {<<112, 55>>, <<120, 111>>, <<233>>}

\* The pairs of secrets looked up side by side: any secret with itself or
\* with one of the rivals.
LookupPairs == {<<one, two>> : one \in Secrets, two \in LookupRivals} \cup {<<one, one>> : one \in Secrets}

LookupInit ==
    /\ lk_pc = "hash" /\ lk_secret \in LookupPairs /\ lk_hashed = <<>>
    /\ lk_reply = TransportFailure /\ lk_result = <<>>
    /\ MainIdle /\ ParseIdle

LookupNext == LookupHash \/ LookupCheck

SpecLookup == LookupInit /\ [][LookupNext]_vars

(***************************************************************************)
(* One call of find_suffix_in_response on an arbitrary body.               *)
(***************************************************************************)
\* The alphabet of the bodies: a suffix character in both cases, the
\* separator, a digit, and the two line breaks.
ParseChars == {"A", "a", ":", "1", "\n", "\r"}

ParseTexts == UNION {[1..len -> ParseChars] : len \in 0..MaxBodyLen}

ParseTargets == {<<"A">>}

ParseCall ==
    /\ ps_pc = "call"
    /\ ps_result' = find_suffix_in_response(ps_text, ps_target)
    /\ ps_pc' = "returned"
    /\ UNCHANGED <<ps_text, ps_target>>
    /\ UNCHANGED <<mainVars, lookupVars>>

ParseInit ==
    /\ ps_pc = "call" /\ ps_text \in ParseTexts /\ ps_target \in ParseTargets
    /\ ps_result = [raised |-> "not called", value |-> 0]
    /\ MainIdle /\ LookupIdle

ParseNext == ParseCall

SpecParse == ParseInit /\ [][ParseNext]_vars

(***************************************************************************)
(* Properties of main (under Spec).                                        *)
(***************************************************************************)
\* The vault positions of the candidates, and the position of the k-th.
Logins == {at \in 1..Len(vault) : vault[at].kind = "login"}

KthLogin(k) == CHOOSE at \in Logins : Cardinality({q \in Logins : q <= at}) = k

\* The failures the loop absorbs: a generic query failure, and the unexpected
\* ones of hashing and of emitting.
PerItemFailures == {"HIBPError", "UnicodeEncodeError", "OSError"}

RateLimited == \E k \in 1..Len(outcomes) : outcomes[k] = "HIBPRateLimitError"

HasFinding(k) == \E f \in 1..Len(stdout) : stdout[f].id = KthLogin(k)

\* C1: when the query for the k-th pulled candidate raises HIBPRateLimitError,
\* the run aborts: the k-th candidate is the last one pulled, nothing is
\* hashed or queried after its classification, main goes to its final report
\* and the reported checked count is exactly k.
C1_RateLimitAborts ==
    \A k \in 1..Len(outcomes) :
        outcomes[k] = "HIBPRateLimitError" =>
            /\ k = Len(outcomes)
            /\ checked_count = k
            /\ trace[Len(trace)] = "classified"
            /\ Cardinality({i \in 1..Len(trace) : trace[i] = "pull"}) = k
            /\ pc \in {"final", "done"}
            /\ pc = "done" => (exit_code = 0 /\ reported_tally[1] = k)

\* The second of two candidates is rate-limited, a third is in the vault and
\* is never attempted; the run has ended.
C1_Witness ==
    /\ pc = "done"
    /\ Len(outcomes) = 2
    /\ outcomes[2] = "HIBPRateLimitError"
    /\ Cardinality(Logins) = 3
    /\ reported_tally[1] = 2

\* C2: a generic query failure or an unexpected failure while hashing,
\* querying or emitting is never fatal: the candidate has no finding, main
\* goes on to the pause and the next pull (it reaches its final report only
\* once the vault is exhausted), and every run that is neither cancelled nor
\* fails to enumerate ends with exit status 0, with checked = N when no query
\* was rate-limited, N being the number of candidates of the vault.
C2_FailuresNotFatal ==
    /\ \A k \in 1..Len(outcomes) :
          outcomes[k] \in PerItemFailures =>
              /\ ~HasFinding(k)
              /\ k = Len(outcomes) /\ ending = "running" => pc \in {"sleep", "pull", "final"}
              /\ k = Len(outcomes) /\ pc = "final" => pos > Len(vault)
    /\ pc = "done" /\ ending = "returned" =>
          /\ exit_code = 0
          /\ ~RateLimited => reported_tally = <<Cardinality(Logins), pwned_count>>

\* The scenario of three candidates: a finding with count 5, a generic
\* failure, a clean candidate; the run completes with checked 3 and found 1.
C2_Witness ==
    /\ pc = "done"
    /\ outcomes = <<"finding", "HIBPError", "clean">>
    /\ stdout = <<[id |-> KthLogin(1), count |-> 5]>>
    /\ reported_tally = <<3, 1>>
    /\ exit_code = 0

\* C3: for every candidate whose processing is over, a Finding has been
\* emitted if and only if its lookup completed without failure and returned a
\* count > 0; no candidate has two Findings, Findings appear in candidate
\* order, and the found tally is the number of Findings emitted.
C3_FindingIffPwned ==
    /\ \A k \in 1..Len(outcomes) :
          outcomes[k] # "pending" =>
              (HasFinding(k) <=> (lookups[k].raised = "none" /\ lookups[k].value > 0))
    /\ \A f, g \in 1..Len(stdout) : f < g => stdout[f].id < stdout[g].id
    /\ pwned_count = Len(stdout)
    /\ pwned_count <= checked_count

\* The terminal outcome of a run, from what happened in it.
Outcome ==
    IF ending = "cancelled" THEN "cancelled"
    ELSE IF ending = "enumeration failed" THEN "enumeration failure"
    ELSE IF RateLimited THEN "rate-limited abort"
    ELSE IF \E k \in 1..Len(outcomes) : outcomes[k] \in PerItemFailures
    THEN "partial failure"
    ELSE "success"

\* What the run reports: its exit status and the kinds of the records logged.
Reported == [exit |-> exit_code, records |-> {log[i] : i \in 1..Len(log)}]

\* What an operator reads off a reported status.
ReadStatus(status) ==
    IF status.exit = 1 THEN "cancelled"
    ELSE IF status.exit \in {2, 3} THEN "enumeration failure"
    ELSE IF "rate_limited" \in status.records THEN "rate-limited abort"
    ELSE IF status.records \cap {"hibp_failed", "unexpected"} # {}
    THEN "partial failure"
    ELSE "success"

\* C4: the reported status of a finished run (exit status and records
\* logged) determines which of the five outcomes the run had: success,
\* partial failure, rate-limited abort, cancellation, enumeration failure; so
\* no two outcomes end in the same reported status.
C4_OutcomesDistinct == pc = "done" => ReadStatus(Reported) = Outcome

\* A run with a skipped candidate that then is rate-limited: exit status 0,
\* like a success, told apart by the record logged.
C4_Witness ==
    /\ pc = "done"
    /\ outcomes = <<"HIBPError", "HIBPRateLimitError">>
    /\ exit_code = 0
    /\ Outcome = "rate-limited abort"

\* C5: a run cancelled while candidates are being pulled, queried or paused
\* on stops without processing further candidates and has reported the tally
\* reached so far (checked and found) when it terminates.
C5_CancelReportsTally ==
    pc = "done" /\ ending = "cancelled" /\ pos > 0 =>
        /\ reported_tally = <<checked_count, pwned_count>>
        /\ checked_count = Len(outcomes)

Last(events) == events[Len(events)]

\* C10: exactly one pause lies between the classification of a candidate and
\* the pull of the next; whatever follows a classification is a pause; no
\* two queries are issued without a pause between them; and when the run
\* returns, the last processed candidate was followed by a pause unless its
\* query raised HIBPRateLimitError, after which nothing more happened.
C10_PauseAfterEach ==
    /\ \A i \in 2..Len(trace) :
          trace[i] = "pull" => (i > 2 /\ trace[i - 1] = "pause" /\ trace[i - 2] = "classified")
    /\ \A i \in 1..(Len(trace) - 1) : trace[i] = "classified" => trace[i + 1] = "pause"
    /\ \A i \in 2..Len(trace) : trace[i] = "pause" => trace[i - 1] = "classified"
    /\ \A i, j \in 1..Len(trace) :
          i < j /\ trace[i] = "query" /\ trace[j] = "query" =>
              \E p \in (i + 1)..(j - 1) : trace[p] = "pause"
    /\ ending = "returned" /\ trace # <<>> =>
          IF Last(outcomes) = "HIBPRateLimitError"
          THEN Last(trace) = "classified"
          ELSE Last(trace) = "pause"

\* Three candidates, a generic failure, a failure to hash and a clean one:
\* each is followed by its pause, the one never queried included.
C10_Witness ==
    /\ ending = "returned"
    /\ outcomes = <<"HIBPError", "UnicodeEncodeError", "clean">>
    /\ trace = <<"pull", "query", "classified", "pause",
                 "pull", "classified", "pause",
                 "pull", "query", "classified", "pause">>

(***************************************************************************)
(* Properties of a lookup (under SpecLookup).                              *)
(***************************************************************************)
\* Whether the lookup of the r-th secret hashed it.
Hashed(r) == lk_hashed[r].raised = "none"

\* C6: every remote outcome is classified into one of three: status 429
\* gives HIBPRateLimitError; any other non-200 status, and a transport
\* failure, gives HIBPError; status 200 gives the body, an empty body making
\* check_pwned_hash return 0 without a failure.
C6_FetchClassifies ==
    lk_pc = "done" /\ Hashed(1) =>
        IF lk_reply.kind = "RequestException" THEN lk_result[1].raised = "HIBPError"
        ELSE IF lk_reply.status_code = 429 THEN lk_result[1].raised = "HIBPRateLimitError"
        ELSE IF lk_reply.status_code # 200 THEN lk_result[1].raised = "HIBPError"
        ELSE /\ lk_result[1].raised = "none"
             /\ lk_reply.text = <<>> => lk_result[1].value = 0

HexUpper == {"0", "1", "2", "3", "4", "5", "6", "7", "8", "9", "A", "B", "C", "D", "E", "F"}

\* The uppercase SHA-1 digest of "p7", as sha1sum gives it.
DigestOfP7 ==
    <<"E", "8", "8", "B", "9", "E", "B", "4", "A", "2", "9", "3", "4", "3", "7", "6",
      "2", "5", "2", "2", "7", "C", "5", "2", "9", "4", "6", "0", "D", "0", "E", "0",
      "0", "A", "2", "1", "6", "E", "9", "D">>

\* The uppercase SHA-1 digest of the one character U+00E9 (UTF-8 bytes C3 A9).
DigestOfEAcute ==
    <<"B", "F", "1", "5", "B", "E", "7", "1", "7", "A", "C", "1", "B", "0", "8", "0",
      "B", "4", "F", "1", "C", "4", "5", "6", "6", "9", "2", "8", "2", "5", "8", "9",
      "1", "F", "F", "5", "0", "7", "3", "D">>

\* C8: for every secret that has UTF-8 bytes, hash_password returns a
\* fingerprint whose prefix is the first 5 and whose suffix the remaining 35
\* characters of the 40-character uppercase hexadecimal SHA-1 digest of these
\* bytes, get_full_hash() giving the digest back; the digest is the known one
\* for "p7" and for U+00E9, and the same secret gives the same fingerprint.
C8_FingerprintSplitsDigest ==
    lk_pc # "hash" =>
        /\ \A r \in 1..2 :
              Encodable(lk_secret[r]) =>
                  /\ Hashed(r)
                  /\ Len(lk_hashed[r].value.prefix) = 5
                  /\ Len(lk_hashed[r].value.suffix) = 35
                  /\ \A i \in 1..40 : get_full_hash(lk_hashed[r].value)[i] \in HexUpper
                  /\ get_full_hash(lk_hashed[r].value) = Upper(PasswordDigest(lk_secret[r]))
                  /\ lk_hashed[r].value.prefix = SubSeq(Upper(PasswordDigest(lk_secret[r])), 1, 5)
                  /\ lk_secret[r] = <<112, 55>> => get_full_hash(lk_hashed[r].value) = DigestOfP7
                  /\ lk_secret[r] = <<233>> => get_full_hash(lk_hashed[r].value) = DigestOfEAcute
        /\ lk_secret[1] = lk_secret[2] => lk_hashed[1] = lk_hashed[2]

\* A two-byte-per-character secret hashed twice, with the same fingerprint.
C8_Witness ==
    /\ lk_pc = "check"
    /\ lk_secret = <<<<233, 112>>, <<233, 112>>>>
    /\ Hashed(1)
    /\ lk_hashed[1] = lk_hashed[2]
    /\ Len(get_full_hash(lk_hashed[1].value)) = 40

\* The address of the range endpoint.
RangeEndpoint ==
    <<"h", "t", "t", "p", "s", ":", "/", "/", "a", "p", "i", ".", "p", "w", "n", "e",
      "d", "p", "a", "s", "s", "w", "o", "r", "d", "s", ".", "c", "o", "m", "/", "r",
      "a", "n", "g", "e", "/">>

\* The request that carries a prefix and nothing else of the secret.
PrefixOnlyRequest(prefix) ==
    [url |-> RangeEndpoint \o prefix,
     headers |-> [name \in {"User-Agent"} |-> "1Password-Pwned-Check/1.0"],
     timeout |-> 15]

\* C9: the request sent depends on the secret only through the 5-character
\* prefix: each lookup sends the one request made of the endpoint, the prefix,
\* the fixed header and the fixed timeout, so two secrets whose digests share
\* a prefix send identical requests, and neither the suffix nor the secret is
\* part of a request; a secret that cannot be hashed sends nothing.
C9_RequestFromPrefixOnly ==
    lk_pc = "done" =>
        /\ \A r \in 1..2 :
              IF Hashed(r)
              THEN lk_result[r].sent = <<PrefixOnlyRequest(lk_hashed[r].value.prefix)>>
              ELSE lk_result[r].sent = <<>>
        /\ (Hashed(1) /\ Hashed(2) /\ lk_hashed[1].value.prefix = lk_hashed[2].value.prefix)
              => lk_result[1].sent = lk_result[2].sent

\* "p7" and "xo": different secrets, different suffixes, the same prefix,
\* the same request.
C9_Witness ==
    /\ lk_pc = "done"
    /\ lk_secret = <<<<120, 111>>, <<112, 55>>>>
    /\ lk_hashed[1].value.prefix = lk_hashed[2].value.prefix
    /\ lk_hashed[1].value.suffix # lk_hashed[2].value.suffix
    /\ lk_result[1].sent = lk_result[2].sent
    /\ lk_result[1].sent # <<>>

(***************************************************************************)
(* Properties of find_suffix_in_response (under SpecParse).                *)
(***************************************************************************)
\* Where a line has its separators.
Colons(line) == {k \in 1..Len(line) : line[k] = ":"}

\* A line decodes as SUFFIX:COUNT: one separator, then decimal digits.
Decodes(line) ==
    /\ Cardinality(Colons(line)) = 1
    /\ \E c \in Colons(line) :
          /\ c < Len(line)
          /\ \A k \in (c + 1)..Len(line) : IsDigit(line[k])

SuffixOf(line) == SubSeq(line, 1, (CHOOSE c \in Colons(line) : TRUE) - 1)

CountOf(line) == IntValue(SubSeq(line, (CHOOSE c \in Colons(line) : TRUE) + 1, Len(line)))

\* The lines of the body that decode and carry the target suffix.
Answers(lines, target) ==
    {k \in 1..Len(lines) : Decodes(lines[k]) /\ SuffixOf(lines[k]) = target}

====
